---- MODULE Spec2Model ----
(***************************************************************************)
(* A model of the meeting RAG system (phase3_rag_system.py) and of its     *)
(* accuracy evaluator (accuracy_evaluation.py).                            *)
(*                                                                         *)
(* Python floats are modelled as exact rationals <<n, d>> in lowest terms  *)
(* with d > 0; IEEE rounding is not modelled.  Python strings whose        *)
(* characters are inspected (fragment texts, keywords, answers) are        *)
(* sequences of one-character strings.  A Python dict is a record whose    *)
(* DOMAIN is the dict's key set; None is the value None below.  A call     *)
(* that may raise returns [raised |-> TRUE, exc |-> e] or                  *)
(* [raised |-> FALSE, value |-> v].                                        *)
(***************************************************************************)
EXTENDS Integers, Sequences, FiniteSets, TLC

VARIABLES
    store,            \* self.client's collection: the sequence of points
    langsmith_client, \* self.langsmith_client: None, or a working / raising sink
    call,             \* the last public method call: [op, args, ret]
    pc,               \* run_accuracy_evaluation's position
    qi,               \* run_accuracy_evaluation's loop index i (1-based)
    retrieval_results,\* the loop's retrieval_results
    retrieval_time,   \* the loop's retrieval_time
    query_times,
    generation_times,
    rag_result,       \* the loop's rag_result
    results_by_category,
    all_relevance_scores,
    all_ranking_scores,
    all_generation_scores,
    run_result,       \* what run_accuracy_evaluation returned or raised
    report            \* the grades generate_accuracy_report put in its report

vars == <<store, langsmith_client, call, pc, qi, retrieval_results, retrieval_time,
          query_times, generation_times, rag_result,
          results_by_category, all_relevance_scores, all_ranking_scores,
          all_generation_scores, run_result, report>>

harness_vars == <<pc, qi, retrieval_results, retrieval_time, query_times,
                  generation_times, rag_result, results_by_category,
                  all_relevance_scores, all_ranking_scores,
                  all_generation_scores, run_result, report>>

----------------------------------------------------------------------------
(* Bounds of the model *)

\* longest chunk list handed directly to generate_answer
MaxChunks == 6
\* every chunk list up to this length is tried in full
MaxShort == 2
\* longest result list handed directly to the relevance and ranking scorers
MaxScored == 3
\* number of ground-truth queries the evaluation run loops over
MaxQueries == 3

----------------------------------------------------------------------------
(* Arithmetic *)

None == "<None>"

Abs(n) == IF n < 0 THEN -n ELSE n

RECURSIVE GCD(_, _)
GCD(a, b) == IF b = 0 THEN a ELSE GCD(b, a % b)

\* the float n / d
R(n, d) ==
    LET g == GCD(Abs(n), Abs(d))
        s == IF d < 0 THEN -1 ELSE 1
    IN  <<(s * n) \div g, (s * d) \div g>>

Zero == <<0, 1>>
One == <<1, 1>>

RAdd(a, b) == R(a[1] * b[2] + b[1] * a[2], a[2] * b[2])
RSub(a, b) == R(a[1] * b[2] - b[1] * a[2], a[2] * b[2])
RMul(a, b) == R(a[1] * b[1], a[2] * b[2])
RLeq(a, b) == a[1] * b[2] <= b[1] * a[2]
RLt(a, b) == a[1] * b[2] < b[1] * a[2]
\* Python's min(a, b) and max(a, b)
RMin(a, b) == IF RLt(b, a) THEN b ELSE a
RMax(a, b) == IF RLt(a, b) THEN b ELSE a

Ok(v) == [raised |-> FALSE, value |-> v]
Raise(e) == [raised |-> TRUE, exc |-> e]

\* Python's a / b on numbers: raises ZeroDivisionError when b is 0
Divide(a, b) ==
    IF b[1] = 0 THEN Raise("ZeroDivisionError")
    ELSE Ok(R(a[1] * b[2], a[2] * b[1]))

Min(a, b) == IF b < a THEN b ELSE a

\* Python's seq[:n]
Take(seq, n) == SubSeq(seq, 1, Min(Len(seq), n))

RECURSIVE RSum(_)
\* Python's sum(...) over a sequence of floats
RSum(seq) == IF seq = <<>> THEN Zero ELSE RAdd(seq[1], RSum(Tail(seq)))

\* all sequences over S of length at most n
SeqsUpTo(S, n) == UNION {[1..k -> S] : k \in 0..n}

----------------------------------------------------------------------------
(* Strings *)

ToLower ==
    ("A" :> "a") @@ ("B" :> "b") @@ ("C" :> "c") @@ ("D" :> "d") @@
    ("E" :> "e") @@ ("F" :> "f") @@ ("G" :> "g") @@ ("H" :> "h") @@
    ("I" :> "i") @@ ("J" :> "j") @@ ("K" :> "k") @@ ("L" :> "l") @@
    ("M" :> "m") @@ ("N" :> "n") @@ ("O" :> "o") @@ ("P" :> "p") @@
    ("Q" :> "q") @@ ("R" :> "r") @@ ("S" :> "s") @@ ("T" :> "t") @@
    ("U" :> "u") @@ ("V" :> "v") @@ ("W" :> "w") @@ ("X" :> "x") @@
    ("Y" :> "y") @@ ("Z" :> "z")

\* str.lower()
Lower(s) == [i \in 1..Len(s) |-> IF s[i] \in DOMAIN ToLower THEN ToLower[s[i]] ELSE s[i]]

\* Python's `sub in s` on strings
Contains(sub, s) ==
    \/ sub = <<>>
    \/ \E i \in 1..(Len(s) - Len(sub) + 1) :
          /\ s[i] = sub[1]
          /\ SubSeq(s, i, i + Len(sub) - 1) = sub

\* s followed by filler characters up to length n
PadTo(s, n) == s \o [i \in 1..(n - Len(s)) |-> "."]

----------------------------------------------------------------------------
(* Program constants *)

\* generate_answer uses retrieved_chunks[:5]
TopK == 5
\* run_accuracy_evaluation searches with limit=10
EvalLimit == 10
\* confidence = min(avg_score * 1.2, 1.0)
ConfidenceBoost == R(12, 10)

\* "I couldn't find any relevant information to answer your question."
NoInfoAnswer ==
    <<"I", " ", "c", "o", "u", "l", "d", "n", "'", "t", " ", "f", "i", "n", "d", " ", "a", "n", "y", " ", "r", "e", "l", "e", "v", "a", "n", "t", " ", "i", "n", "f", "o", "r", "m", "a", "t", "i", "o", "n", " ", "t", "o", " ", "a", "n", "s", "w", "e", "r", " ", "y", "o", "u", "r", " ", "q", "u", "e", "s", "t", "i", "o", "n", ".">>

\* "Sorry, I encountered an error generating the response: "
ErrorPrefix ==
    <<"S", "o", "r", "r", "y", ",", " ", "I", " ", "e", "n", "c", "o", "u", "n", "t", "e", "r", "e", "d", " ", "a", "n", " ", "e", "r", "r", "o", "r", " ", "g", "e", "n", "e", "r", "a", "t", "i", "n", "g", " ", "t", "h", "e", " ", "r", "e", "s", "p", "o", "n", "s", "e", ":", " ">>

----------------------------------------------------------------------------
(* Data of the model: texts, fragments, queries *)

TxtTask == <<"H", "i", "g", "h", " ", "p", "r", "i", "o", "r", "i", "t", "y", " ", "t", "a", "s", "k">>
TxtFunding == <<"F", "u", "n", "d", "i", "n", "g", " ", "r", "o", "a", "d", "m", "a", "p", " ", "r", "e", "v", "i", "e", "w">>
TxtAiRisk == <<"A", "I", " ", "r", "i", "s", "k", " ", "i", "n", " ", "r", "e", "g", "u", "l", "a", "t", "i", "o", "n">>
TxtLunch == <<"L", "u", "n", "c", "h", " ", "o", "r", "d", "e", "r">>
TxtUrgent == <<"u", "r", "g", "e", "n", "t", " ", "d", "e", "a", "d", "l", "i", "n", "e">>
TxtProduct == <<"P", "r", "o", "d", "u", "c", "t", " ", "s", "t", "r", "a", "t", "e", "g", "y">>
TxtInvestor == <<"I", "n", "v", "e", "s", "t", "o", "r", " ", "u", "p", "d", "a", "t", "e">>

\* a point as load_embeddings_to_qdrant builds it; vector is the embedding's
\* direction in steps of 60 degrees.  Of the payload's extra fields
\* (assigned_to, due_date, priority, file_source), which search only copies
\* into metadata, priority stands for all four.
Point(id, vector, meeting_id, text, type, speaker, role, priority) ==
    [id |-> id, vector |-> vector,
     payload |-> [chunk_id |-> id, meeting_id |-> meeting_id, text |-> text,
                  type |-> type, speaker |-> speaker, role |-> role,
                  priority |-> priority]]

P1 == Point(1, 0, "meeting_001", TxtTask, "action_item", None, None, "High")
P2 == Point(2, 1, "meeting_001", TxtFunding, "minute", "Arjun Vasanth", "CEO", None)
P3 == Point(3, 2, "meeting_002", TxtAiRisk, "key_insight", None, None, None)
P4 == Point(4, 3, "meeting_002", TxtLunch, "minute", "Vikram Malhotra", "CTO", None)
P5 == Point(5, 0, "meeting_002", TxtUrgent, "action_item", None, None, "Medium")
P6 == Point(6, 1, "meeting_001", TxtProduct, "key_insight", None, None, None)
P7 == Point(7, 1, "meeting_002", TxtInvestor, "minute", "Arjun Vasanth", "CEO", None)

\* the collections the model starts from: empty, small, larger than TopK
Stores == {<<>>, <<P1, P2, P3, P4>>, <<P1, P2, P3, P4, P5, P6, P7>>}

\* _create_ground_truth_dataset, its first entries
GroundTruthDataset == <<
    [query |-> "What are the key product development priorities?",
     expected_types |-> <<"minute", "key_insight">>,
     expected_speakers |-> <<"Arjun Vasanth", "Vikram Malhotra">>,
     expected_keywords |-> <<<<"p", "r", "o", "d", "u", "c", "t">>, <<"d", "e", "v", "e", "l", "o", "p", "m", "e", "n", "t">>, <<"p", "r", "i", "o", "r", "i", "t", "y">>,
                             <<"r", "o", "a", "d", "m", "a", "p">>, <<"s", "t", "r", "a", "t", "e", "g", "y">>>>,
     category |-> "product_strategy"],
    [query |-> "Show me high priority action items",
     expected_types |-> <<"action_item">>,
     expected_keywords |-> <<<<"h", "i", "g", "h">>, <<"p", "r", "i", "o", "r", "i", "t", "y">>, <<"u", "r", "g", "e", "n", "t">>,
                             <<"d", "e", "a", "d", "l", "i", "n", "e">>, <<"t", "a", "s", "k">>>>,
     category |-> "action_items"],
    [query |-> "What did Arjun discuss about funding and investment?",
     expected_types |-> <<"minute">>,
     expected_speakers |-> <<"Arjun Vasanth">>,
     expected_keywords |-> <<<<"f", "u", "n", "d", "i", "n", "g">>, <<"i", "n", "v", "e", "s", "t", "m", "e", "n", "t">>, <<"c", "a", "p", "i", "t", "a", "l">>,
                             <<"m", "o", "n", "e", "y">>, <<"i", "n", "v", "e", "s", "t", "o", "r">>>>,
     category |-> "funding"],
    [query |-> "Which meetings discussed regulatory compliance?",
     expected_types |-> <<"minute", "key_insight">>,
     expected_keywords |-> <<<<"r", "e", "g", "u", "l", "a", "t", "o", "r", "y">>, <<"c", "o", "m", "p", "l", "i", "a", "n", "c", "e">>, <<"r", "e", "g", "u", "l", "a", "t", "i", "o", "n">>,
                             <<"l", "e", "g", "a", "l">>, <<"p", "o", "l", "i", "c", "y">>>>,
     category |-> "compliance"]
>>

\* self.ground_truth_queries, cut to the model's bound
ground_truth_queries == Take(GroundTruthDataset, MaxQueries)

Queries == {GroundTruthDataset[i].query : i \in 1..2}

\* SentenceTransformer.encode: the query's embedding direction
Encode(query) ==
    CASE query = GroundTruthDataset[1].query -> 1
      [] query = GroundTruthDataset[2].query -> 0
      [] query = GroundTruthDataset[3].query -> 2
      [] OTHER -> 3

\* cosine similarity of two directions a, b in 0..3 (steps of 60 degrees)
Cosine(a, b) ==
    CASE Abs(a - b) = 0 -> R(1, 1)
      [] Abs(a - b) = 1 -> R(1, 2)
      [] Abs(a - b) = 2 -> R(-1, 2)
      [] OTHER -> R(-1, 1)

----------------------------------------------------------------------------
(* Collaborators: the fragment store, the telemetry sink *)

\* Python truthiness of an optional string
Truthy(x) == x # None /\ x # ""

\* a point satisfies Filter(must=[FieldCondition(key, MatchValue(value)), ...])
Matches(point, query_filter) ==
    \A f \in {query_filter[n] : n \in 1..Len(query_filter)} :
        \A c \in {f.must[n] : n \in 1..Len(f.must)} : point.payload[c.key] = c.value

\* of the positions S of points, the one the store ranks first: the highest
\* cosine score, the earliest point among equal scores
Best(points, query_vector, S) ==
    CHOOSE i \in S : \A j \in S :
        \/ RLt(Cosine(query_vector, points[j].vector), Cosine(query_vector, points[i].vector))
        \/ /\ Cosine(query_vector, points[j].vector) = Cosine(query_vector, points[i].vector)
           /\ i <= j

RECURSIVE Ranked(_, _, _, _)
Ranked(points, query_vector, S, limit) ==
    IF S = {} \/ limit <= 0 THEN <<>>
    ELSE LET b == Best(points, query_vector, S)
         IN  <<[score |-> Cosine(query_vector, points[b].vector),
                payload |-> points[b].payload]>>
             \o Ranked(points, query_vector, S \ {b}, limit - 1)

\* QdrantClient.search(collection_name, query_vector, query_filter, limit):
\* the matching points by descending score, at most limit of them; the call
\* fails when the store is not up.  query_filter is <<>> for None and
\* <<Filter>> otherwise.
StoreSearch(points, query_vector, query_filter, limit, store_up) ==
    IF ~store_up THEN Raise("StoreError")
    ELSE Ok(Ranked(points, query_vector,
                   {i \in 1..Len(points) : Matches(points[i], query_filter)}, limit))

\* LangSmithClient.create_run
create_run(client, run) ==
    IF client = "raising" THEN Raise("LangSmithError") ELSE Ok(run)

\* a run logged without the try/except around it
LogRunUncaught(client, run) ==
    IF client = None THEN [raised |-> FALSE, runs |-> <<>>]
    ELSE LET r == create_run(client, run)
         IN  IF r.raised THEN [raised |-> TRUE, exc |-> r.exc, runs |-> <<>>]
             ELSE [raised |-> FALSE, runs |-> <<run>>]

\* if self.langsmith_client: try: create_run(...) except Exception: pass
LogRun(client, run) ==
    IF client = None THEN [raised |-> FALSE, runs |-> <<>>]
    ELSE LET r == create_run(client, run)
         IN  IF r.raised THEN [raised |-> FALSE, runs |-> <<>>]
             ELSE [raised |-> FALSE, runs |-> <<run>>]

\* what a method hands back: its value or its exception, and the runs it logged
Ret(v, runs) == [raised |-> FALSE, value |-> v, runs |-> runs]
Exc(e, runs) == [raised |-> TRUE, exc |-> e, runs |-> runs]

\* the calls to the store and to the language model made while a method ran to
\* the outcome, in the order they were made
Trace(outcome) == IF "calls" \in DOMAIN outcome THEN outcome.calls ELSE <<>>

\* the outcome of a method that made the calls before whatever outcome records
After(calls, outcome) ==
    [f \in DOMAIN outcome \cup {"calls"} |->
        IF f = "calls" THEN calls \o Trace(outcome) ELSE outcome[f]]

----------------------------------------------------------------------------
(* MeetingRAGSystem *)

\* one entry of search's result list
FormatResult(hit) ==
    [score |-> hit.score,
     chunk_id |-> hit.payload.chunk_id,
     meeting_id |-> hit.payload.meeting_id,
     text |-> hit.payload.text,
     type |-> hit.payload.type,
     speaker |-> IF "speaker" \in DOMAIN hit.payload THEN hit.payload.speaker ELSE None,
     role |-> IF "role" \in DOMAIN hit.payload THEN hit.payload.role ELSE None,
     metadata |-> [k \in DOMAIN hit.payload \
                       {"text", "chunk_id", "meeting_id", "type", "speaker", "role"}
                   |-> hit.payload[k]]]

\* the hits in reverse order
FormatResultsReversed(search_results) ==
    [n \in 1..Len(search_results) |->
        FormatResult(search_results[Len(search_results) + 1 - n])]

\* for result in search_results: results.append({...})
FormatResults(search_results) ==
    [n \in 1..Len(search_results) |-> FormatResult(search_results[n])]

\* the filter built from chunk_type alone
SearchFilterTypeOnly(chunk_type, meeting_id) ==
    IF Truthy(chunk_type)
    THEN <<[must |-> <<[key |-> "type", value |-> chunk_type]>>]>>
    ELSE <<>>

\* the filter search builds from chunk_type and meeting_id
SearchFilter(chunk_type, meeting_id) ==
    LET filter_conditions ==
            (IF Truthy(chunk_type)
             THEN <<[key |-> "type", value |-> chunk_type]>> ELSE <<>>)
            \o (IF Truthy(meeting_id)
                THEN <<[key |-> "meeting_id", value |-> meeting_id]>> ELSE <<>>)
    IN  IF filter_conditions # <<>> THEN <<[must |-> filter_conditions]>> ELSE <<>>

\* the run search logs: lines 145-152
SearchRun(query, limit, chunk_type, meeting_id, results) ==
    [name |-> "semantic_search_metrics", run_type |-> "retriever",
     inputs |-> [query |-> query, limit |-> limit,
                 chunk_type |-> chunk_type, meeting_id |-> meeting_id],
     outputs |-> [results_count |-> Len(results),
                  top_score |-> IF results # <<>> THEN results[1].score ELSE Zero]]

\* a method's return after its logging block: the value, unless the block raised
ReturnLogged(log, value) ==
    IF log.raised THEN Exc(log.exc, log.runs) ELSE Ret(value, log.runs)

\* search once the store has answered
SearchFound(client, query, limit, chunk_type, meeting_id, search_results) ==
    IF search_results.raised THEN Exc(search_results.exc, <<>>)
    ELSE ReturnLogged(LogRun(client,
                             SearchRun(query, limit, chunk_type, meeting_id,
                                       FormatResults(search_results.value))),
                      FormatResults(search_results.value))

\* MeetingRAGSystem.search
search(points, client, query, limit, chunk_type, meeting_id, store_up) ==
    After(<<"client.search">>,
          SearchFound(client, query, limit, chunk_type, meeting_id,
                      StoreSearch(points, Encode(query), SearchFilter(chunk_type, meeting_id),
                                  limit, store_up)))

\* str(e): the message of an exception
Str(e) ==
    CASE e = "SDKError" -> <<"q", "u", "o", "t", "a", " ", "e", "x", "c", "e", "e", "d", "e", "d">>
      [] e = "ZeroDivisionError" -> <<"d", "i", "v", "i", "s", "i", "o", "n", " ", "b", "y", " ", "z", "e", "r", "o">>
      [] e = "LangSmithError" -> <<"s", "i", "n", "k", " ", "u", "n", "r", "e", "a", "c", "h", "a", "b", "l", "e">>
      [] OTHER -> <<"e", "r", "r", "o", "r">>

\* [chunk['score'] for chunk in retrieved_chunks[:5]]
TopScores(retrieved_chunks) ==
    [n \in 1..Len(Take(retrieved_chunks, TopK)) |-> retrieved_chunks[n].score]

\* the except branch with sources_used counted over the top chunks only
GenerationErrorCapped(retrieved_chunks, e, runs) ==
    Ret([answer |-> ErrorPrefix \o Str(e),
         confidence |-> Zero,
         sources_used |-> Len(Take(retrieved_chunks, TopK)),
         error |-> Str(e)], runs)

\* the except branch of generate_answer
GenerationError(retrieved_chunks, e, runs) ==
    Ret([answer |-> ErrorPrefix \o Str(e),
         confidence |-> Zero,
         sources_used |-> Len(retrieved_chunks),
         error |-> Str(e)], runs)

\* avg_score = sum(scores of chunks[:5]) / min(len(chunks), 5)
AvgScore(retrieved_chunks) ==
    Divide(RSum(TopScores(retrieved_chunks)), R(Min(Len(retrieved_chunks), TopK), 1))

\* the confidence without the cap at 1.0
ScaledUncapped(avg_score) ==
    IF avg_score.raised THEN avg_score
    ELSE Ok(RMul(avg_score.value, ConfidenceBoost))

\* confidence = min(avg_score * 1.2, 1.0)
Scaled(avg_score) ==
    IF avg_score.raised THEN avg_score
    ELSE Ok(RMin(RMul(avg_score.value, ConfidenceBoost), One))

Confidence(retrieved_chunks) == Scaled(AvgScore(retrieved_chunks))

\* the run generate_answer logs: lines 218-225 (context_length is not modelled)
GenerationRun(query, retrieved_chunks, generated_answer, confidence) ==
    [name |-> "llm_generation_metrics", run_type |-> "llm",
     inputs |-> [query |-> query, sources_count |-> Len(Take(retrieved_chunks, TopK))],
     outputs |-> [answer_length |-> Len(generated_answer), confidence |-> confidence]]

\* the success return with the scores of every chunk it was given
GenerationLoggedAllScores(retrieved_chunks, generated_answer, confidence, log) ==
    IF log.raised THEN GenerationError(retrieved_chunks, log.exc, log.runs)
    ELSE Ret([answer |-> generated_answer,
              confidence |-> confidence,
              sources_used |-> Len(Take(retrieved_chunks, TopK)),
              retrieval_scores |-> [n \in 1..Len(retrieved_chunks) |->
                                       retrieved_chunks[n].score]], log.runs)

\* the success return of generate_answer, after its logging block
GenerationLogged(retrieved_chunks, generated_answer, confidence, log) ==
    IF log.raised THEN GenerationError(retrieved_chunks, log.exc, log.runs)
    ELSE Ret([answer |-> generated_answer,
              confidence |-> confidence,
              sources_used |-> Len(Take(retrieved_chunks, TopK)),
              retrieval_scores |-> TopScores(retrieved_chunks)], log.runs)

\* generate_answer once the response has arrived: lines 209-234
GenerationScored(client, query, retrieved_chunks, generated_answer, confidence) ==
    IF confidence.raised THEN GenerationError(retrieved_chunks, confidence.exc, <<>>)
    ELSE GenerationLogged(retrieved_chunks, generated_answer, confidence.value,
                          LogRun(client, GenerationRun(query, retrieved_chunks,
                                                       generated_answer, confidence.value)))

\* generate_answer without its guard on an empty chunk list
generate_answer_unguarded(client, query, retrieved_chunks, response) ==
    IF response.raised THEN GenerationError(retrieved_chunks, response.exc, <<>>)
    ELSE GenerationScored(client, query, retrieved_chunks, response.content,
                          Confidence(retrieved_chunks))

\* generate_answer calling the model a second time when the first call raises
generate_answer_retrying(client, query, retrieved_chunks, response) ==
    IF retrieved_chunks = <<>>
    THEN Ret([answer |-> NoInfoAnswer, confidence |-> Zero, sources_used |-> 0], <<>>)
    ELSE IF response.raised
    THEN After(<<"chat.complete", "chat.complete">>,
               GenerationError(retrieved_chunks, response.exc, <<>>))
    ELSE After(<<"chat.complete">>,
               GenerationScored(client, query, retrieved_chunks, response.content,
                                Confidence(retrieved_chunks)))

\* MeetingRAGSystem.generate_answer; response is what
\* mistral_client.chat.complete does on this call: [raised |-> FALSE,
\* content |-> text] or [raised |-> TRUE, exc |-> e].  The prompt text
\* is not modelled: the response is any of the model's responses.
generate_answer(client, query, retrieved_chunks, response) ==
    IF retrieved_chunks = <<>>
    THEN Ret([answer |-> NoInfoAnswer, confidence |-> Zero, sources_used |-> 0], <<>>)
    ELSE IF response.raised
    THEN After(<<"chat.complete">>, GenerationError(retrieved_chunks, response.exc, <<>>))
    ELSE After(<<"chat.complete">>,
               GenerationScored(client, query, retrieved_chunks, response.content,
                                Confidence(retrieved_chunks)))

\* the run search_and_generate logs: lines 259-272
PipelineRun(query, limit, chunk_type, meeting_id, retrieved_chunks, llm_response) ==
    [name |-> "rag_pipeline_complete", run_type |-> "chain",
     inputs |-> [query |-> query, limit |-> limit,
                 chunk_type |-> chunk_type, meeting_id |-> meeting_id],
     outputs |-> [chunks_retrieved |-> Len(retrieved_chunks),
                  confidence |-> llm_response.confidence,
                  answer_length |-> Len(llm_response.answer),
                  sources_used |-> llm_response.sources_used]]

\* the return of search_and_generate with only the chunks the answer used
PipelineLoggedTopOnly(query, retrieved, llm, log) ==
    IF log.raised THEN Exc(log.exc, retrieved.runs \o llm.runs \o log.runs)
    ELSE Ret([query |-> query,
              generated_answer |-> llm.value,
              retrieved_chunks |-> Take(retrieved.value, TopK),
              total_chunks_found |-> Len(Take(retrieved.value, TopK))],
             retrieved.runs \o llm.runs \o log.runs)

\* the return of search_and_generate, after its logging block
PipelineLogged(query, retrieved, llm, log) ==
    IF log.raised THEN Exc(log.exc, retrieved.runs \o llm.runs \o log.runs)
    ELSE Ret([query |-> query,
              generated_answer |-> llm.value,
              retrieved_chunks |-> retrieved.value,
              total_chunks_found |-> Len(retrieved.value)],
             retrieved.runs \o llm.runs \o log.runs)

\* search_and_generate once generate_answer has returned
PipelineGenerated(client, query, limit, chunk_type, meeting_id, retrieved, llm) ==
    IF llm.raised THEN Exc(llm.exc, retrieved.runs \o llm.runs)
    ELSE PipelineLogged(query, retrieved, llm,
                        LogRun(client, PipelineRun(query, limit, chunk_type, meeting_id,
                                                   retrieved.value, llm.value)))

\* search_and_generate once search has returned
PipelineRetrieved(client, query, limit, chunk_type, meeting_id, response, retrieved) ==
    IF retrieved.raised THEN retrieved
    ELSE After(Trace(retrieved)
               \o Trace(generate_answer(client, query, retrieved.value, response)),
               PipelineGenerated(client, query, limit, chunk_type, meeting_id, retrieved,
                                 generate_answer(client, query, retrieved.value, response)))

\* MeetingRAGSystem.search_and_generate
search_and_generate(points, client, query, limit, chunk_type, meeting_id, store_up, response) ==
    PipelineRetrieved(client, query, limit, chunk_type, meeting_id, response,
                      search(points, client, query, limit, chunk_type, meeting_id,
                             store_up))

----------------------------------------------------------------------------
(* AccuracyEvaluator: the three scorers *)

\* Python's `x in list`
InList(x, list) == \E n \in 1..Len(list) : list[n] = x

\* the number of TRUE entries of a sequence of booleans: a loop that adds 1
\* for each entry that passes its test
Count(flags) == Cardinality({n \in 1..Len(flags) : flags[n]})

\* the float of an int
Float(n) == R(n, 1)

\* keyword matches counted once per (result, keyword) pair: no `break`
KeywordMatchesNoBreak(expected_keywords, results) ==
    LET Hits(result) ==
            Count([k \in 1..Len(expected_keywords) |->
                      Contains(Lower(expected_keywords[k]), Lower(result.text))])
        RECURSIVE Total(_)
        Total(n) == IF n = 0 THEN 0 ELSE Hits(results[n]) + Total(n - 1)
    IN  Total(Len(results))

\* the keyword loop of evaluate_relevance: each result counts at most once
KeywordMatches(expected_keywords, results) ==
    Count([r \in 1..Len(results) |->
              \E n \in 1..Len(expected_keywords) :
                  Contains(Lower(expected_keywords[n]), Lower(results[r].text))])

\* type_accuracy: lines 90-98
TypeAccuracy(query_data, results) ==
    IF "expected_types" \in DOMAIN query_data
    THEN Divide(Float(Count([r \in 1..Len(results) |->
                                InList(results[r].type, query_data.expected_types)])),
                Float(Len(results)))
    ELSE Ok(One)

\* keyword_relevance with the keywords and texts compared as written, without
\* lower()
KeywordRelevanceCaseSensitive(query_data, results) ==
    IF "expected_keywords" \in DOMAIN query_data
    THEN Divide(Float(Count([r \in 1..Len(results) |->
                                \E n \in 1..Len(query_data.expected_keywords) :
                                    Contains(query_data.expected_keywords[n],
                                             results[r].text)])),
                Float(Len(results)))
    ELSE Ok(One)

\* keyword_relevance: lines 100-111
KeywordRelevance(query_data, results) ==
    IF "expected_keywords" \in DOMAIN query_data
    THEN Divide(Float(KeywordMatches(query_data.expected_keywords, results)),
                Float(Len(results)))
    ELSE Ok(One)

\* speaker_accuracy with a result that has no speaker counted as a match
SpeakerAccuracyNoneMatches(query_data, results) ==
    IF "expected_speakers" \in DOMAIN query_data
    THEN Divide(Float(Count([r \in 1..Len(results) |->
                                \/ results[r].speaker = None
                                \/ InList(results[r].speaker,
                                          query_data.expected_speakers)])),
                Float(Len(results)))
    ELSE Ok(One)

\* speaker_accuracy: lines 113-121
SpeakerAccuracy(query_data, results) ==
    IF "expected_speakers" \in DOMAIN query_data
    THEN Divide(Float(Count([r \in 1..Len(results) |->
                                InList(results[r].speaker, query_data.expected_speakers)])),
                Float(Len(results)))
    ELSE Ok(One)

\* overall_relevance with the weights of type and keyword exchanged
RelevanceMetricsSwappedWeights(type_accuracy, keyword_relevance, speaker_accuracy) ==
    IF type_accuracy.raised THEN type_accuracy
    ELSE IF keyword_relevance.raised THEN keyword_relevance
    ELSE IF speaker_accuracy.raised THEN speaker_accuracy
    ELSE Ok([type_accuracy |-> type_accuracy.value,
             keyword_relevance |-> keyword_relevance.value,
             speaker_accuracy |-> speaker_accuracy.value,
             overall_relevance |->
                 RAdd(RAdd(RMul(type_accuracy.value, R(5, 10)),
                           RMul(keyword_relevance.value, R(3, 10))),
                      RMul(speaker_accuracy.value, R(2, 10)))])

\* overall_relevance and the returned dict: lines 123-131
RelevanceMetrics(type_accuracy, keyword_relevance, speaker_accuracy) ==
    IF type_accuracy.raised THEN type_accuracy
    ELSE IF keyword_relevance.raised THEN keyword_relevance
    ELSE IF speaker_accuracy.raised THEN speaker_accuracy
    ELSE Ok([type_accuracy |-> type_accuracy.value,
             keyword_relevance |-> keyword_relevance.value,
             speaker_accuracy |-> speaker_accuracy.value,
             overall_relevance |->
                 RAdd(RAdd(RMul(type_accuracy.value, R(3, 10)),
                           RMul(keyword_relevance.value, R(5, 10))),
                      RMul(speaker_accuracy.value, R(2, 10)))])

\* evaluate_relevance without its guard on an empty result list
evaluate_relevance_unguarded(query_data, results) ==
    RelevanceMetrics(TypeAccuracy(query_data, results),
                     KeywordRelevance(query_data, results),
                     SpeakerAccuracy(query_data, results))

\* AccuracyEvaluator.evaluate_relevance
evaluate_relevance(query_data, results) ==
    IF results = <<>>
    THEN Ok([type_accuracy |-> Zero, keyword_relevance |-> Zero,
             speaker_accuracy |-> Zero, overall_relevance |-> Zero])
    ELSE RelevanceMetrics(TypeAccuracy(query_data, results),
                          KeywordRelevance(query_data, results),
                          SpeakerAccuracy(query_data, results))

\* max(scores), min(scores) of a non-empty list
MaxOf(scores) == CHOOSE x \in {scores[n] : n \in 1..Len(scores)} :
                     \A n \in 1..Len(scores) : RLeq(scores[n], x)
MinOf(scores) == CHOOSE x \in {scores[n] : n \in 1..Len(scores)} :
                     \A n \in 1..Len(scores) : RLeq(x, scores[n])

\* the quotient as it is, without the cap at 1.0
NoCap(quotient) == quotient

\* min(quotient, 1.0)
CapAtOne(quotient) ==
    IF quotient.raised THEN quotient ELSE Ok(RMin(quotient.value, One))

\* score_distribution of max(scores) and min(scores): lines 144-145
ScoreDistribution(max_score, min_score) ==
    IF RLt(Zero, max_score)
    THEN CapAtOne(Divide(RSub(max_score, min_score), max_score))
    ELSE Ok(Zero)

\* the returned dict with monotonic meaning strictly decreasing
RankingMetricsStrict(scores, score_distribution) ==
    IF score_distribution.raised THEN score_distribution
    ELSE Ok([score_monotonicity |->
                 IF \A i \in 1..(Len(scores) - 1) : RLt(scores[i + 1], scores[i])
                 THEN One ELSE Zero,
             score_distribution |-> score_distribution.value])

\* the dict evaluate_ranking_quality returns: lines 140-150
RankingMetrics(scores, score_distribution) ==
    IF score_distribution.raised THEN score_distribution
    ELSE Ok([score_monotonicity |->
                 IF \A i \in 1..(Len(scores) - 1) : RLeq(scores[i + 1], scores[i])
                 THEN One ELSE Zero,
             score_distribution |-> score_distribution.value])

\* scores = [result["score"] for result in results]
Scores(results) == [n \in 1..Len(results) |-> results[n].score]

\* evaluate_ranking_quality with its guard on an empty list only
evaluate_ranking_quality_empty_only(results) ==
    IF Len(results) < 1
    THEN Ok([score_monotonicity |-> One, score_distribution |-> One])
    ELSE RankingMetrics(Scores(results),
                        ScoreDistribution(MaxOf(Scores(results)), MinOf(Scores(results))))

\* AccuracyEvaluator.evaluate_ranking_quality
evaluate_ranking_quality(results) ==
    IF Len(results) < 2
    THEN Ok([score_monotonicity |-> One, score_distribution |-> One])
    ELSE RankingMetrics(Scores(results),
                        ScoreDistribution(MaxOf(Scores(results)), MinOf(Scores(results))))

\* length_score = 1.0 if 50 <= answer_length <= 1000
\*                else max(0.3, min(answer_length / 500, 1.0))
LengthScore(answer_length) ==
    IF 50 <= answer_length /\ answer_length <= 1000 THEN One
    ELSE RMax(R(3, 10), RMin(R(answer_length, 500), One))

\* keyword_coverage that starts from 1.0 when no keywords are declared
KeywordCoverageDefaultOne(query_data, answer_lower) ==
    IF "expected_keywords" \in DOMAIN query_data
    THEN Divide(Float(Count([k \in 1..Len(query_data.expected_keywords) |->
                                Contains(Lower(query_data.expected_keywords[k]),
                                         answer_lower)])),
                Float(Len(query_data.expected_keywords)))
    ELSE Ok(One)

\* keyword_coverage of the lower-cased answer: lines 304-309
KeywordCoverage(query_data, answer_lower) ==
    IF "expected_keywords" \in DOMAIN query_data
    THEN Divide(Float(Count([k \in 1..Len(query_data.expected_keywords) |->
                                Contains(Lower(query_data.expected_keywords[k]),
                                         answer_lower)])),
                Float(Len(query_data.expected_keywords)))
    ELSE Ok(Zero)

\* source_utilization without the cap at 1.0
SourceUtilizationUncapped(sources_used) == R(sources_used, 3)

\* source_utilization = min(sources_used / 3.0, 1.0)
SourceUtilization(sources_used) == RMin(R(sources_used, 3), One)

\* overall_quality and the returned dict: lines 315-329
GenerationMetrics(confidence, length_score, keyword_coverage, source_utilization, answer_length) ==
    IF keyword_coverage.raised THEN keyword_coverage
    ELSE Ok([confidence |-> confidence,
             length_score |-> length_score,
             keyword_coverage |-> keyword_coverage.value,
             source_utilization |-> source_utilization,
             overall_quality |->
                 RAdd(RAdd(RAdd(RMul(confidence, R(4, 10)),
                                RMul(length_score, R(2, 10))),
                           RMul(keyword_coverage.value, R(3, 10))),
                      RMul(source_utilization, R(1, 10))),
             answer_length |-> answer_length])

\* AccuracyEvaluator.evaluate_generation_quality
evaluate_generation_quality(query_data, rag_res) ==
    GenerationMetrics(rag_res.generated_answer.confidence,
                      LengthScore(Len(rag_res.generated_answer.answer)),
                      KeywordCoverage(query_data, Lower(rag_res.generated_answer.answer)),
                      SourceUtilization(rag_res.generated_answer.sources_used),
                      Len(rag_res.generated_answer.answer))

\* statistics.mean of a list of floats
Mean(xs) ==
    IF xs = <<>> THEN Raise("StatisticsError")
    ELSE Divide(RSum(xs), Float(Len(xs)))

\* the grade with each threshold exclusive
get_grade_exclusive(score) ==
    IF RLt(R(9, 10), score) THEN "A+"
    ELSE IF RLt(R(8, 10), score) THEN "A"
    ELSE IF RLt(R(7, 10), score) THEN "B+"
    ELSE IF RLt(R(6, 10), score) THEN "B"
    ELSE IF RLt(R(5, 10), score) THEN "C"
    ELSE "D"

\* AccuracyEvaluator._get_grade
get_grade(score) ==
    IF RLeq(R(9, 10), score) THEN "A+"
    ELSE IF RLeq(R(8, 10), score) THEN "A"
    ELSE IF RLeq(R(7, 10), score) THEN "B+"
    ELSE IF RLeq(R(6, 10), score) THEN "B"
    ELSE IF RLeq(R(5, 10), score) THEN "C"
    ELSE "D"

----------------------------------------------------------------------------
(* Inputs of the model *)

Sinks == {None, "ok", "raising"}
\* the query of the direct generate_answer calls
DirectQueries == {GroundTruthDataset[2].query}
Limits == {2, EvalLimit}
ChunkTypes == {None, "action_item"}
MeetingIds == {None, "meeting_001"}

\* what mistral_client.chat.complete may do on one call
LLMAnswers == {PadTo(TxtTask, 49), PadTo(TxtTask, 50),
               PadTo(TxtProduct, 1000), PadTo(TxtProduct, 1001)}
LLMErrors == {"SDKError"}
LLMResponses == {[raised |-> FALSE, content |-> a] : a \in LLMAnswers}
                \cup {[raised |-> TRUE, exc |-> e] : e \in LLMErrors}

\* chunk lists handed directly to generate_answer: every score list up to
\* MaxShort, and longer ones x, ..., x, y up to MaxChunks
DirectScores == {R(-1, 1), R(3, 4), R(1, 1)}
DirectChunk(score) == FormatResult([score |-> score, payload |-> P2.payload])
DirectScoreLists ==
    SeqsUpTo(DirectScores, MaxShort)
    \cup {[n \in 1..k |-> IF n < k THEN x ELSE y] :
              k \in (MaxShort + 1)..MaxChunks, x \in DirectScores, y \in DirectScores}
DirectChunkLists ==
    {[n \in 1..Len(sl) |-> DirectChunk(sl[n])] : sl \in DirectScoreLists}

\* result lists handed directly to the relevance and ranking scorers
ScoredChunks == {FormatResult([score |-> R(1, 1), payload |-> P1.payload]),
                 FormatResult([score |-> R(1, 2), payload |-> P2.payload]),
                 FormatResult([score |-> R(-1, 2), payload |-> P3.payload])}
ScoredLists == SeqsUpTo(ScoredChunks, MaxScored)

\* a full page of results: ten action items, six of them with "priority" in
\* the text
ScenarioResults ==
    [n \in 1..10 |->
        FormatResult([score |-> R(1, 2),
                      payload |-> IF n <= 6 THEN P1.payload
                                  ELSE [P1.payload EXCEPT !.text = TxtLunch]])]

\* result lists handed directly to the ranking scorer, which reads only the
\* scores: every list up to MaxScored over the cosine range's ends, middle
\* and halves
RankingScores == {R(-1, 1), R(-1, 2), R(0, 1), R(1, 2), R(1, 1)}
RankingLists ==
    {[n \in 1..Len(sl) |-> DirectChunk(sl[n])] : sl \in SeqsUpTo(RankingScores, MaxScored)}

\* QuerySpecs handed directly to the scorers: ground-truth entries and
\* degenerate ones (no expectation declared, expectations declared empty)
ScorerSpecs ==
    {GroundTruthDataset[1], GroundTruthDataset[2],
     [query |-> "q", category |-> "none"],
     [query |-> "q", category |-> "empty", expected_types |-> <<>>,
      expected_speakers |-> <<>>, expected_keywords |-> <<>>],
     [query |-> "q", category |-> "one", expected_keywords |-> <<<<"T", "A", "S", "K">>>>],
     [query |-> "q", category |-> "speaker", expected_speakers |-> <<"Arjun Vasanth">>]}

\* QuerySpecs handed directly to the generation scorer, which reads only
\* expected_keywords
GenerationSpecs == {qd \in ScorerSpecs : qd.category \in {"action_items", "none", "empty", "one"}}

\* what mistral_client.chat.complete may do on one call of the evaluation
\* run: answer in 50 characters, or raise
RunResponses ==
    {r \in LLMResponses : r.raised \/ r = [raised |-> FALSE, content |-> PadTo(TxtTask, 50)]}

\* the time one timed call may take, in seconds
Latencies == {R(1, 10), R(3, 10)}

\* scores handed directly to _get_grade: hundredths from below 0 to above 1
GradeScores == {R(k, 100) : k \in -50..110}

----------------------------------------------------------------------------
(* The state machine *)

NoCall == [op |-> "none"]

\* the api key __init__ settles on: mistral_api_key or os.getenv(...)
ApiKey(mistral_api_key, env_key) ==
    IF Truthy(mistral_api_key) THEN mistral_api_key ELSE env_key

\* __init__ without the check of the api key
init_unchecked(mistral_api_key, env_key) == Ok(ApiKey(mistral_api_key, env_key))

\* MeetingRAGSystem.__init__, up to the Mistral client: lines 32-36
init(mistral_api_key, env_key) ==
    IF ~Truthy(ApiKey(mistral_api_key, env_key)) THEN Raise("ValueError")
    ELSE Ok(ApiKey(mistral_api_key, env_key))

\* the mistral_api_key argument and the MISTRAL_API_KEY environment variable
KeyArguments == {None, "", "key-from-argument"}
KeyEnvironments == {None, "", "key-from-environment"}

\* before MeetingRAGSystem is constructed; the store is the collection the
\* instance will hold once loaded
Init ==
    /\ store \in Stores
    /\ langsmith_client = None
    /\ call = NoCall
    /\ pc = "new"
    /\ qi = 0
    /\ retrieval_results = <<>>
    /\ retrieval_time = None
    /\ query_times = <<>>
    /\ generation_times = <<>>
    /\ rag_result = <<>>
    /\ results_by_category = <<>>
    /\ all_relevance_scores = <<>>
    /\ all_ranking_scores = <<>>
    /\ all_generation_scores = <<>>
    /\ run_result = <<>>
    /\ report = <<>>

\* MeetingRAGSystem(...) is constructed (AccuracyEvaluator.__init__ passes no
\* argument): without an api key __init__ raises and there is no instance;
\* with one, langsmith_client is None, a working client, or one whose calls
\* raise
Construct ==
    /\ pc = "new"
    /\ \E mistral_api_key \in KeyArguments, env_key \in KeyEnvironments, sink \in Sinks :
          /\ call' = [op |-> "__init__",
                      args |-> [mistral_api_key |-> mistral_api_key, env_key |-> env_key],
                      ret |-> init(mistral_api_key, env_key)]
          /\ IF init(mistral_api_key, env_key).raised
             THEN pc' = "config_error" /\ langsmith_client' = None
             ELSE pc' = "idle" /\ langsmith_client' = sink
    /\ UNCHANGED <<store, qi, retrieval_results, retrieval_time, query_times,
                   generation_times, rag_result, results_by_category,
                   all_relevance_scores, all_ranking_scores, all_generation_scores,
                   run_result, report>>

\* a client calls search
CallSearch ==
    /\ pc = "idle"
    /\ call = NoCall
    /\ \E query \in Queries, limit \in Limits, chunk_type \in ChunkTypes,
          meeting_id \in MeetingIds, store_up \in BOOLEAN :
          call' = [op |-> "search",
                   args |-> [query |-> query, limit |-> limit, chunk_type |-> chunk_type,
                             meeting_id |-> meeting_id, store_up |-> store_up],
                   ret |-> search(store, langsmith_client, query, limit, chunk_type,
                                  meeting_id, store_up)]
    /\ UNCHANGED <<store, langsmith_client, harness_vars>>

\* mistral_client.chat.complete neither returns nor raises
NoResponse == [raised |-> FALSE, responds |-> FALSE]

\* generate_answer over retrieved_chunks reaches mistral_client.chat.complete:
\* it has not returned at line 163
ReachesLLM(retrieved_chunks) == retrieved_chunks # <<>>

\* search_and_generate reaches mistral_client.chat.complete: search returned
\* and generate_answer over its results does
PipelineReachesLLM(retrieved) == ~retrieved.raised /\ ReachesLLM(retrieved.value)

\* what the caller of op has: the outcome ret or, when the call is still
\* waiting inside chat.complete (no timeout is passed at lines 200-207),
\* nothing
Invocation(op, args, waits, ret) ==
    IF waits THEN [op |-> "blocked", in |-> op, args |-> args]
    ELSE [op |-> op, args |-> args, ret |-> ret]

\* a client calls generate_answer
CallGenerateAnswer ==
    /\ pc = "idle"
    /\ call = NoCall
    /\ \E query \in DirectQueries, retrieved_chunks \in DirectChunkLists,
          response \in LLMResponses \cup {NoResponse} :
          /\ response = NoResponse => ReachesLLM(retrieved_chunks)
          /\ call' = Invocation("generate_answer",
                                [query |-> query, retrieved_chunks |-> retrieved_chunks,
                                 response |-> response],
                                response = NoResponse,
                                generate_answer(langsmith_client, query, retrieved_chunks,
                                                response))
    /\ UNCHANGED <<store, langsmith_client, harness_vars>>

\* a client calls search_and_generate
CallSearchAndGenerate ==
    /\ pc = "idle"
    /\ call = NoCall
    /\ \E query \in Queries, limit \in Limits, chunk_type \in ChunkTypes,
          meeting_id \in MeetingIds, store_up \in BOOLEAN,
          response \in LLMResponses \cup {NoResponse} :
          /\ response = NoResponse =>
                 PipelineReachesLLM(search(store, langsmith_client, query, limit,
                                           chunk_type, meeting_id, store_up))
          /\ call' = Invocation("search_and_generate",
                                [query |-> query, limit |-> limit, chunk_type |-> chunk_type,
                                 meeting_id |-> meeting_id, store_up |-> store_up,
                                 response |-> response],
                                response = NoResponse,
                                search_and_generate(store, langsmith_client, query, limit,
                                                    chunk_type, meeting_id, store_up,
                                                    response))
    /\ UNCHANGED <<store, langsmith_client, harness_vars>>

\* a client calls evaluate_relevance
CallEvaluateRelevance ==
    /\ pc = "idle"
    /\ call = NoCall
    /\ \E query_data \in ScorerSpecs, results \in ScoredLists \cup {ScenarioResults} :
          call' = [op |-> "evaluate_relevance",
                   args |-> [query_data |-> query_data, results |-> results],
                   ret |-> evaluate_relevance(query_data, results)]
    /\ UNCHANGED <<store, langsmith_client, harness_vars>>

\* a client calls evaluate_ranking_quality
CallEvaluateRanking ==
    /\ pc = "idle"
    /\ call = NoCall
    /\ \E results \in RankingLists :
          call' = [op |-> "evaluate_ranking_quality",
                   args |-> [results |-> results],
                   ret |-> evaluate_ranking_quality(results)]
    /\ UNCHANGED <<store, langsmith_client, harness_vars>>

\* the rag_result a client holds after its last call, if that call made one
HeldRagResult ==
    IF call.op = "search_and_generate" /\ ~call.ret.raised
    THEN <<call.ret.value>>
    ELSE IF call.op = "generate_answer" /\ ~call.ret.raised
    THEN <<[query |-> call.args.query,
            generated_answer |-> call.ret.value,
            retrieved_chunks |-> call.args.retrieved_chunks,
            total_chunks_found |-> Len(call.args.retrieved_chunks)]>>
    ELSE <<>>

\* a client scores the answer it has just received
CallEvaluateGeneration ==
    /\ pc = "idle"
    /\ HeldRagResult # <<>>
    /\ \E query_data \in GenerationSpecs :
          call' = [op |-> "evaluate_generation_quality",
                   args |-> [query_data |-> query_data, rag_result |-> HeldRagResult[1]],
                   ret |-> evaluate_generation_quality(query_data, HeldRagResult[1])]
    /\ UNCHANGED <<store, langsmith_client, harness_vars>>

\* the three scorers of AccuracyEvaluator
Scorers == {"evaluate_relevance", "evaluate_ranking_quality", "evaluate_generation_quality"}

\* a scorer reading its results through an iterator a previous scorer call
\* has already consumed
ScorerExhausted(op, args) ==
    CASE op = "evaluate_relevance" ->
           evaluate_relevance(args.query_data,
                              IF call.op \in Scorers THEN <<>> ELSE args.results)
      [] op = "evaluate_ranking_quality" ->
           evaluate_ranking_quality(IF call.op \in Scorers THEN <<>> ELSE args.results)
      [] OTHER -> evaluate_generation_quality(args.query_data, args.rag_result)

\* self.<op>(**args) for one of the scorers
Scorer(op, args) ==
    CASE op = "evaluate_relevance" -> evaluate_relevance(args.query_data, args.results)
      [] op = "evaluate_ranking_quality" -> evaluate_ranking_quality(args.results)
      [] OTHER -> evaluate_generation_quality(args.query_data, args.rag_result)

\* the call to another scorer a client makes between a call of scorer op and
\* its repeat
BetweenCall(op) ==
    IF op = "evaluate_relevance"
    THEN [op |-> "evaluate_ranking_quality",
          args |-> [results |-> <<DirectChunk(R(1, 2)), DirectChunk(R(1, 1))>>]]
    ELSE [op |-> "evaluate_relevance",
          args |-> [query_data |-> GroundTruthDataset[1], results |-> ScenarioResults]]

\* a client that holds a scorer's result calls another scorer, keeping the
\* earlier call's arguments and result
CallScorerBetween ==
    /\ pc = "idle"
    /\ call.op \in Scorers
    /\ "earlier" \notin DOMAIN call
    /\ call' = [op |-> BetweenCall(call.op).op, args |-> BetweenCall(call.op).args,
                ret |-> Scorer(BetweenCall(call.op).op, BetweenCall(call.op).args),
                earlier |-> call]
    /\ UNCHANGED <<store, langsmith_client, harness_vars>>

\* the two results a client has after calling scorer op on args a second time
Repeated(op, args, first, between) ==
    [op |-> "repeat", scorer |-> op, first |-> first, ret |-> Scorer(op, args),
     between |-> between]

\* a client repeats a scorer call on the objects it passed the first time,
\* at once or after the call to another scorer made in between
CallScorerAgain ==
    /\ pc = "idle"
    /\ call.op \in Scorers
    /\ IF "earlier" \in DOMAIN call
       THEN call' = Repeated(call.earlier.op, call.earlier.args, call.earlier.ret, <<call.op>>)
       ELSE call' = Repeated(call.op, call.args, call.ret, <<>>)
    /\ UNCHANGED <<store, langsmith_client, harness_vars>>

\* a client calls _get_grade
CallGetGrade ==
    /\ pc = "idle"
    /\ call = NoCall
    /\ \E score \in GradeScores :
          call' = [op |-> "_get_grade", args |-> [score |-> score],
                   ret |-> get_grade(score)]
    /\ UNCHANGED <<store, langsmith_client, harness_vars>>

\* the client has its result and is ready for its next call
Return ==
    /\ pc = "idle"
    /\ call # NoCall
    /\ call.op # "blocked"
    /\ call' = NoCall
    /\ UNCHANGED <<store, langsmith_client, harness_vars>>

----------------------------------------------------------------------------
(* AccuracyEvaluator.run_accuracy_evaluation, one action per step of its loop.
   The collection the run sets up and loads is the store the model starts
   from; the time a call takes is any of Latencies. *)

\* the run propagates an exception: nothing after the raising statement runs
Propagate(e) ==
    /\ pc' = "raised"
    /\ run_result' = Raise(e)
    /\ UNCHANGED <<qi, retrieval_results, retrieval_time, query_times,
                   generation_times, rag_result, results_by_category,
                   all_relevance_scores, all_ranking_scores, all_generation_scores>>

\* the evaluation script starts: the lists are created, the loop begins
StartRun ==
    /\ pc = "idle"
    /\ call = NoCall
    /\ results_by_category' = <<>>
    /\ all_relevance_scores' = <<>>
    /\ all_ranking_scores' = <<>>
    /\ all_generation_scores' = <<>>
    /\ query_times' = <<>>
    /\ generation_times' = <<>>
    /\ qi' = 1
    /\ pc' = IF ground_truth_queries = <<>> THEN "aggregate" ELSE "search"
    /\ UNCHANGED <<store, langsmith_client, call, retrieval_results, retrieval_time,
                   rag_result, run_result, report>>

\* the loop after the direct retrieval r, which took the time elapsed
Retrieved(r, elapsed) ==
    IF r.raised THEN Propagate(r.exc)
    ELSE /\ retrieval_results' = r.value
         /\ retrieval_time' = elapsed
         /\ pc' = "generate"
         /\ UNCHANGED <<qi, query_times, generation_times, rag_result,
                        results_by_category, all_relevance_scores,
                        all_ranking_scores, all_generation_scores, run_result>>

\* retrieval_results = self.rag_system.search(query, limit=10)
HarnessSearch ==
    /\ pc = "search"
    /\ \E store_up \in BOOLEAN, elapsed \in Latencies :
          Retrieved(search(store, langsmith_client, ground_truth_queries[qi].query,
                           EvalLimit, None, None, store_up), elapsed)
    /\ UNCHANGED <<store, langsmith_client, call, report>>

\* the loop after the orchestrator call r, which took the time elapsed:
\* lines 182-186
Generated(r, elapsed) ==
    IF r.raised THEN Propagate(r.exc)
    ELSE /\ rag_result' = r.value
         /\ query_times' = Append(query_times, retrieval_time)
         /\ generation_times' = Append(generation_times, elapsed)
         /\ pc' = "score"
         /\ UNCHANGED <<qi, retrieval_results, retrieval_time, results_by_category,
                        all_relevance_scores, all_ranking_scores,
                        all_generation_scores, run_result>>

\* rag_result = self.rag_system.search_and_generate(query, limit=10)
HarnessGenerate ==
    /\ pc = "generate"
    /\ \E store_up \in BOOLEAN, response \in RunResponses \cup {NoResponse},
          elapsed \in Latencies :
          IF response = NoResponse
          THEN /\ PipelineReachesLLM(search(store, langsmith_client,
                                            ground_truth_queries[qi].query, EvalLimit,
                                            None, None, store_up))
               /\ pc' = "hung"
               /\ UNCHANGED <<qi, retrieval_results, retrieval_time, query_times,
                              generation_times, rag_result, results_by_category,
                              all_relevance_scores, all_ranking_scores,
                              all_generation_scores, run_result>>
          ELSE Generated(search_and_generate(store, langsmith_client,
                                             ground_truth_queries[qi].query, EvalLimit,
                                             None, None, store_up, response), elapsed)
    /\ UNCHANGED <<store, langsmith_client, call, report>>

\* the dict appended for one query, with the number of results asked for in
\* place of the number retrieved
QueryResultAskedCount(query_data, relevance, ranking, generation) ==
    [query |-> query_data.query,
     retrieval_time |-> retrieval_time,
     generation_time |-> generation_times[Len(generation_times)],
     num_retrieved |-> EvalLimit,
     relevance |-> relevance,
     ranking |-> ranking,
     generation |-> generation,
     confidence |-> rag_result.generated_answer.confidence,
     top_score |-> IF retrieval_results # <<>> THEN retrieval_results[1].score ELSE Zero]

\* the dict appended for one query: lines 201-211 (generation_time is the
\* time just appended to generation_times)
QueryResult(query_data, relevance, ranking, generation) ==
    [query |-> query_data.query,
     retrieval_time |-> retrieval_time,
     generation_time |-> generation_times[Len(generation_times)],
     num_retrieved |-> Len(retrieval_results),
     relevance |-> relevance,
     ranking |-> ranking,
     generation |-> generation,
     confidence |-> rag_result.generated_answer.confidence,
     top_score |-> IF retrieval_results # <<>> THEN retrieval_results[1].score ELSE Zero]

\* a dict that holds the category's new list and nothing else
OnlyCategory(by_category, category) == (category :> <<>>)

\* results_by_category with the category's list created when absent
WithCategory(by_category, category) ==
    IF category \in DOMAIN by_category THEN by_category
    ELSE by_category @@ (category :> <<>>)

\* the loop after the three scorers: lines 197-216
Scored(query_data, relevance_metrics, ranking_metrics, generation_metrics) ==
    IF relevance_metrics.raised THEN Propagate(relevance_metrics.exc)
    ELSE IF ranking_metrics.raised THEN Propagate(ranking_metrics.exc)
    ELSE IF generation_metrics.raised THEN Propagate(generation_metrics.exc)
    ELSE /\ results_by_category' =
                [WithCategory(results_by_category, query_data.category)
                    EXCEPT ![query_data.category] =
                        Append(@, QueryResult(query_data, relevance_metrics.value,
                                              ranking_metrics.value,
                                              generation_metrics.value))]
         /\ all_relevance_scores' =
                Append(all_relevance_scores, relevance_metrics.value.overall_relevance)
         /\ all_ranking_scores' =
                Append(all_ranking_scores, ranking_metrics.value.score_monotonicity)
         /\ all_generation_scores' =
                Append(all_generation_scores, generation_metrics.value.overall_quality)
         /\ qi' = qi + 1
         /\ pc' = IF qi = Len(ground_truth_queries) THEN "aggregate" ELSE "search"
         /\ UNCHANGED <<retrieval_results, retrieval_time, query_times,
                        generation_times, rag_result, run_result>>

\* the three scorers, then the appends that close one loop iteration
HarnessScore ==
    /\ pc = "score"
    /\ Scored(ground_truth_queries[qi],
              evaluate_relevance(ground_truth_queries[qi], retrieval_results),
              evaluate_ranking_quality(retrieval_results),
              evaluate_generation_quality(ground_truth_queries[qi], rag_result))
    /\ UNCHANGED <<store, langsmith_client, call, report>>

\* the return of run_accuracy_evaluation: lines 221-241
Aggregated(average_relevance, average_ranking_quality, average_generation_quality, average_retrieval_time, average_generation_time) ==
    IF average_relevance.raised THEN Propagate(average_relevance.exc)
    ELSE IF average_ranking_quality.raised THEN Propagate(average_ranking_quality.exc)
    ELSE IF average_generation_quality.raised
    THEN Propagate(average_generation_quality.exc)
    ELSE IF average_retrieval_time.raised THEN Propagate(average_retrieval_time.exc)
    ELSE IF average_generation_time.raised THEN Propagate(average_generation_time.exc)
    ELSE /\ run_result' =
                Ok([overall_metrics |->
                        [average_relevance |-> average_relevance.value,
                         average_ranking_quality |-> average_ranking_quality.value,
                         average_generation_quality |-> average_generation_quality.value,
                         average_retrieval_time |-> average_retrieval_time.value,
                         average_generation_time |-> average_generation_time.value,
                         total_queries |-> Len(ground_truth_queries),
                         categories_tested |-> Cardinality(DOMAIN results_by_category)],
                    results_by_category |-> results_by_category,
                    detailed_scores |->
                        [relevance_scores |-> all_relevance_scores,
                         ranking_scores |-> all_ranking_scores,
                         generation_scores |-> all_generation_scores,
                         retrieval_times |-> query_times,
                         generation_times |-> generation_times]])
         /\ pc' = "done"
         /\ UNCHANGED <<qi, retrieval_results, retrieval_time, query_times,
                        generation_times, rag_result, results_by_category,
                        all_relevance_scores, all_ranking_scores, all_generation_scores>>

\* overall_metrics and the return of run_accuracy_evaluation
HarnessAggregate ==
    /\ pc = "aggregate"
    /\ Aggregated(Mean(all_relevance_scores), Mean(all_ranking_scores),
                  Mean(all_generation_scores), Mean(query_times),
                  Mean(generation_times))
    /\ UNCHANGED <<store, langsmith_client, call, report>>

\* [r[outer][inner] for r in results]
Column(results, outer, inner) ==
    [n \in 1..Len(results) |-> results[n][outer][inner]]

\* [r[key] for r in results]
Field(results, key) == [n \in 1..Len(results) |-> results[n][key]]

\* the means the report prints for one category: lines 278-281 (a
\* category's list is never empty)
CategoryBreakdown(results) ==
    [avg_relevance |-> Mean(Column(results, "relevance", "overall_relevance")).value,
     avg_generation |-> Mean(Column(results, "generation", "overall_quality")).value,
     avg_retrieval_time |-> Mean(Field(results, "retrieval_time")).value,
     avg_generation_time |-> Mean(Field(results, "generation_time")).value]

\* generate_accuracy_report on the run's results: the three grades of the
\* overall averages and the means of each category (the rendering as text
\* is not modelled)
HarnessReport ==
    /\ pc = "done"
    /\ report' = [by_category |->
                      [c \in DOMAIN run_result.value.results_by_category |->
                          CategoryBreakdown(run_result.value.results_by_category[c])],
                  relevance_grade |->
                      get_grade(run_result.value.overall_metrics.average_relevance),
                  ranking_grade |->
                      get_grade(run_result.value.overall_metrics.average_ranking_quality),
                  generation_grade |->
                      get_grade(run_result.value.overall_metrics.average_generation_quality)]
    /\ pc' = "reported"
    /\ UNCHANGED <<store, langsmith_client, call, qi, retrieval_results,
                   retrieval_time, query_times, generation_times, rag_result,
                   results_by_category, all_relevance_scores, all_ranking_scores,
                   all_generation_scores, run_result>>

Next ==
    \/ Construct
    \/ CallSearch
    \/ CallGenerateAnswer
    \/ CallSearchAndGenerate
    \/ CallEvaluateRelevance
    \/ CallEvaluateRanking
    \/ CallEvaluateGeneration
    \/ CallScorerBetween
    \/ CallScorerAgain
    \/ CallGetGrade
    \/ Return
    \/ StartRun
    \/ HarnessSearch
    \/ HarnessGenerate
    \/ HarnessScore
    \/ HarnessAggregate
    \/ HarnessReport

Spec == Init /\ [][Next]_vars

\* the interpreter keeps running a call in progress: a call that can return
\* does, and so does the orchestrator call of the evaluation run
FairSpec == Spec /\ WF_vars(Return) /\ WF_vars(HarnessGenerate)

----------------------------------------------------------------------------
(* Properties *)

\* x lies in [0, 1]
InUnit(x) == RLeq(Zero, x) /\ RLeq(x, One)

\* two outcomes of a method are the same return value or the same exception
SameOutcome(a, b) ==
    /\ a.raised = b.raised
    /\ a.raised => a.exc = b.exc
    /\ ~a.raised => a.value = b.value

\* C1: an exception raised while one QuerySpec is processed is isolated: the
\* evaluation run goes on and returns; it never ends by propagating the
\* exception.
C1_RunIsolatesFailures == pc # "raised"

\* C2: evaluate_generation_quality gives length_score 1.0 to an answer of
\* exactly 50 or exactly 1000 characters, and to an answer of 49 or of 1001
\* characters a length_score below 1.0 and at least 0.3.
C2_LengthScoreBoundaries ==
    (call.op = "evaluate_generation_quality" /\ ~call.ret.raised) =>
        /\ call.ret.value.answer_length \in {50, 1000}
               => call.ret.value.length_score = One
        /\ call.ret.value.answer_length \in {49, 1001}
               => /\ RLt(call.ret.value.length_score, One)
                  /\ RLeq(R(3, 10), call.ret.value.length_score)

\* C3: the confidence of every GeneratedAnswer that generate_answer returns
\* lies in [0, 1], whatever the chunk list and its scores.
C3_ConfidenceInUnit ==
    /\ (call.op = "generate_answer" /\ ~call.ret.raised)
           => InUnit(call.ret.value.confidence)
    /\ (call.op = "search_and_generate" /\ ~call.ret.raised)
           => InUnit(call.ret.value.generated_answer.confidence)
    /\ pc = "score" => InUnit(rag_result.generated_answer.confidence)

\* C4: with a non-empty chunk list and a generation call that raises,
\* generate_answer returns (it does not raise) the error text with the
\* exception's message, confidence 0.0, sources_used the full length of the
\* chunk list, and the error descriptor.
C4_GenerationFailureIsAValue ==
    (call.op = "generate_answer" /\ call.args.retrieved_chunks # <<>>
        /\ call.args.response.raised)
    => /\ ~call.ret.raised
       /\ call.ret.value.answer = ErrorPrefix \o Str(call.args.response.exc)
       /\ call.ret.value.confidence = Zero
       /\ call.ret.value.sources_used = Len(call.args.retrieved_chunks)
       /\ "error" \in DOMAIN call.ret.value
       /\ call.ret.value.error = Str(call.args.response.exc)

\* C4's case: the generation call raised on a chunk list longer than TopK
C4_Witness ==
    /\ call.op = "generate_answer"
    /\ Len(call.args.retrieved_chunks) > TopK
    /\ call.args.response.raised
    /\ call.ret.value.sources_used = Len(call.args.retrieved_chunks)

\* C5: with an empty chunk list generate_answer returns, as a value and with
\* no error descriptor, the fixed "no relevant information" answer with
\* confidence 0.0 and sources_used 0.
C5_EmptyResultsFallback ==
    (call.op = "generate_answer" /\ call.args.retrieved_chunks = <<>>)
    => /\ ~call.ret.raised
       /\ call.ret.value = [answer |-> NoInfoAnswer, confidence |-> Zero,
                            sources_used |-> 0]

\* C5's case: generate_answer was called with an empty chunk list and a
\* generation call that would have answered
C5_Witness ==
    /\ call.op = "generate_answer"
    /\ call.args.retrieved_chunks = <<>>
    /\ ~call.args.response.raised
    /\ call.ret.value.sources_used = 0

RECURSIVE ScoreSum(_, _)
\* the sum of the first k chunks' scores as <<numerator, denominator>>, not
\* reduced
ScoreSum(chunks, k) ==
    IF k = 0 THEN <<0, 1>>
    ELSE <<ScoreSum(chunks, k - 1)[1] * chunks[k].score[2]
               + chunks[k].score[1] * ScoreSum(chunks, k - 1)[2],
           ScoreSum(chunks, k - 1)[2] * chunks[k].score[2]>>

\* the number of chunks generate_answer uses of n
Used(n) == IF n < TopK THEN n ELSE TopK

\* the mean score of the first min(n, 5) chunks, as <<numerator,
\* denominator>> with a positive denominator, not reduced
MeanScore(chunks) ==
    <<ScoreSum(chunks, Used(Len(chunks)))[1],
      Used(Len(chunks)) * ScoreSum(chunks, Used(Len(chunks)))[2]>>

\* min(1.2 * mean, 1.0)
ExpectedConfidence(chunks) ==
    IF 12 * MeanScore(chunks)[1] > 10 * MeanScore(chunks)[2] THEN One
    ELSE R(12 * MeanScore(chunks)[1], 10 * MeanScore(chunks)[2])

\* C6: when the generation call answers on n >= 1 chunks, the confidence is
\* min(1.2 * (mean score of the first min(n, 5) chunks), 1.0); a mean of 0.95
\* gives exactly 1.0.
C6_ConfidenceFormula ==
    (call.op = "generate_answer" /\ call.args.retrieved_chunks # <<>>
        /\ ~call.args.response.raised)
    => /\ ~call.ret.raised
       /\ call.ret.value.confidence = ExpectedConfidence(call.args.retrieved_chunks)
       /\ (20 * MeanScore(call.args.retrieved_chunks)[1]
               = 19 * MeanScore(call.args.retrieved_chunks)[2])
              => call.ret.value.confidence = One

\* C6's case: the first five of six chunks score 1, 1, 1, 1, 3/4, a mean of
\* 0.95, and the generation call answered
C6_Witness ==
    /\ call.op = "generate_answer"
    /\ ~call.args.response.raised
    /\ Len(call.args.retrieved_chunks) >= TopK
    /\ RSum(TopScores(call.args.retrieved_chunks)) = R(19, 4)
    /\ call.ret.value.confidence = One

\* a result list is in non-increasing score order
NonIncreasing(results) ==
    \A i \in 1..(Len(results) - 1) : RLeq(results[i + 1].score, results[i].score)

\* C7: the sequence search returns is non-increasing in score.
C7_SearchOrdered ==
    /\ (call.op = "search" /\ ~call.ret.raised) => NonIncreasing(call.ret.value)
    /\ (call.op = "search_and_generate" /\ ~call.ret.raised)
           => NonIncreasing(call.ret.value.retrieved_chunks)
    /\ pc \in {"generate", "score"} => NonIncreasing(retrieval_results)

\* C7's case: search returned at least three results that are not all of one
\* score
C7_Witness ==
    /\ call.op = "search"
    /\ ~call.ret.raised
    /\ Len(call.ret.value) >= 3
    /\ call.ret.value[1].score # call.ret.value[Len(call.ret.value)].score

\* C8: search, generate_answer and search_and_generate return what they
\* return with no telemetry sink configured, whether the sink is absent,
\* working, or raising on every emission.
C8_TelemetryNeverAltersResult ==
    /\ call.op = "search" =>
           SameOutcome(call.ret,
                       search(store, None, call.args.query, call.args.limit,
                              call.args.chunk_type, call.args.meeting_id,
                              call.args.store_up))
    /\ call.op = "generate_answer" =>
           SameOutcome(call.ret,
                       generate_answer(None, call.args.query,
                                       call.args.retrieved_chunks, call.args.response))
    /\ call.op = "search_and_generate" =>
           SameOutcome(call.ret,
                       search_and_generate(store, None, call.args.query,
                                           call.args.limit, call.args.chunk_type,
                                           call.args.meeting_id, call.args.store_up,
                                           call.args.response))

\* C8's case: with a sink that raises on every emission, search_and_generate
\* retrieved chunks, generated an answer and returned
C8_Witness ==
    /\ langsmith_client = "raising"
    /\ call.op = "search_and_generate"
    /\ ~call.ret.raised
    /\ call.ret.value.total_chunks_found > 0
    /\ "retrieval_scores" \in DOMAIN call.ret.value.generated_answer

\* the four relevance scores lie in [0, 1]
RelevanceInUnit(m) ==
    /\ InUnit(m.type_accuracy)
    /\ InUnit(m.keyword_relevance)
    /\ InUnit(m.speaker_accuracy)
    /\ InUnit(m.overall_relevance)

\* C9: evaluate_relevance returns its four scores within [0, 1] for every
\* QuerySpec and every result list.
C9_RelevanceInUnit ==
    /\ call.op = "evaluate_relevance" =>
           /\ ~call.ret.raised
           /\ RelevanceInUnit(call.ret.value)
    /\ \A c \in DOMAIN results_by_category :
           \A n \in 1..Len(results_by_category[c]) :
               RelevanceInUnit(results_by_category[c][n].relevance)

\* C9's case: a list of two or more results was scored, one of them with a
\* text that holds several of the expected keywords
C9_Witness ==
    /\ call.op = "evaluate_relevance"
    /\ "expected_keywords" \in DOMAIN call.args.query_data
    /\ Len(call.args.results) >= 2
    /\ \E n \in 1..Len(call.args.results) :
           Cardinality({k \in 1..Len(call.args.query_data.expected_keywords) :
               Contains(Lower(call.args.query_data.expected_keywords[k]),
                        Lower(call.args.results[n].text))}) >= 2
    /\ call.ret.value.keyword_relevance = One

\* C10: evaluate_generation_quality returns without raising, with
\* overall_quality in [0, 1], for every QuerySpec (also one with no or an
\* empty keyword set) and every GeneratedAnswer generate_answer returns.
C10_QualityInUnit ==
    /\ call.op = "evaluate_generation_quality" =>
           /\ ~call.ret.raised
           /\ InUnit(call.ret.value.overall_quality)
    /\ \A n \in 1..Len(all_generation_scores) : InUnit(all_generation_scores[n])

\* the four relevance scores are all 0.0
AllZero(m) ==
    /\ m.type_accuracy = Zero
    /\ m.keyword_relevance = Zero
    /\ m.speaker_accuracy = Zero
    /\ m.overall_relevance = Zero

\* C11: on an empty result list evaluate_relevance returns, without raising,
\* four scores of 0.0, whatever the QuerySpec declares; so does the
\* evaluation run for a query that retrieved nothing.
C11_EmptyResultsScoreZero ==
    /\ (call.op = "evaluate_relevance" /\ call.args.results = <<>>) =>
           /\ ~call.ret.raised
           /\ AllZero(call.ret.value)
    /\ \A c \in DOMAIN results_by_category :
           \A n \in 1..Len(results_by_category[c]) :
               results_by_category[c][n].num_retrieved = 0
                   => AllZero(results_by_category[c][n].relevance)

\* C11's case: an empty result list was scored against a QuerySpec that
\* declares no expectation
C11_Witness ==
    /\ call.op = "evaluate_relevance"
    /\ call.args.results = <<>>
    /\ DOMAIN call.args.query_data = {"query", "category"}
    /\ call.ret.value.overall_relevance = Zero

\* the number of results whose type is one of the expected types
TypeHits(query_data, results) ==
    Cardinality({n \in 1..Len(results) :
        \E k \in 1..Len(query_data.expected_types) :
            query_data.expected_types[k] = results[n].type})

\* the number of results that have a speaker, and one of the expected ones
SpeakerHits(query_data, results) ==
    Cardinality({n \in 1..Len(results) :
        /\ results[n].speaker # None
        /\ \E k \in 1..Len(query_data.expected_speakers) :
               query_data.expected_speakers[k] = results[n].speaker})

\* C12: for non-empty results, type_accuracy (speaker_accuracy) is the number
\* of results whose type (speaker) is an expected one over the number of
\* results, and 1.0 when that expectation is not declared; a result with no
\* speaker is no match.
C12_TypeAndSpeakerAccuracy ==
    (call.op = "evaluate_relevance" /\ call.args.results # <<>>) =>
        /\ ~call.ret.raised
        /\ call.ret.value.type_accuracy =
               IF "expected_types" \in DOMAIN call.args.query_data
               THEN R(TypeHits(call.args.query_data, call.args.results),
                      Len(call.args.results))
               ELSE One
        /\ call.ret.value.speaker_accuracy =
               IF "expected_speakers" \in DOMAIN call.args.query_data
               THEN R(SpeakerHits(call.args.query_data, call.args.results),
                      Len(call.args.results))
               ELSE One

\* C12's case: speakers are expected, and of three results one has an
\* expected speaker and one has no speaker
C12_Witness ==
    /\ call.op = "evaluate_relevance"
    /\ "expected_speakers" \in DOMAIN call.args.query_data
    /\ Len(call.args.results) = 3
    /\ \E n \in 1..3 : call.args.results[n].speaker = None
    /\ call.ret.value.speaker_accuracy = R(1, 3)

\* the number of results whose text holds one or more of the expected
\* keywords, letter case ignored
KeywordHits(query_data, results) ==
    Cardinality({n \in 1..Len(results) :
        \E k \in 1..Len(query_data.expected_keywords) :
            Contains(Lower(query_data.expected_keywords[k]), Lower(results[n].text))})

\* C13: for non-empty results, keyword_relevance is the number of results
\* whose text holds at least one expected keyword (letter case ignored) over
\* the number of results, each result counted once, so at most 1.0; it is 1.0
\* when no keywords are declared.
C13_KeywordRelevance ==
    (call.op = "evaluate_relevance" /\ call.args.results # <<>>) =>
        /\ ~call.ret.raised
        /\ call.ret.value.keyword_relevance =
               IF "expected_keywords" \in DOMAIN call.args.query_data
               THEN R(KeywordHits(call.args.query_data, call.args.results),
                      Len(call.args.results))
               ELSE One
        /\ RLeq(call.ret.value.keyword_relevance, One)

\* C13's case: the one expected keyword is written in upper case, and one of
\* two results holds it in lower case
C13_Witness ==
    /\ call.op = "evaluate_relevance"
    /\ call.args.query_data.category = "one"
    /\ Len(call.args.results) = 2
    /\ call.ret.value.keyword_relevance = R(1, 2)

\* C14: for non-empty results, overall_relevance is 0.3 * type_accuracy +
\* 0.5 * keyword_relevance + 0.2 * speaker_accuracy; ten results all of an
\* expected type, six of them with an expected keyword, and no speakers
\* expected give 1.0, 0.6, 1.0 and overall 0.8.
C14_OverallRelevance ==
    (call.op = "evaluate_relevance" /\ call.args.results # <<>>) =>
        /\ ~call.ret.raised
        /\ call.ret.value.overall_relevance =
               RAdd(RAdd(RMul(R(3, 10), call.ret.value.type_accuracy),
                         RMul(R(5, 10), call.ret.value.keyword_relevance)),
                    RMul(R(2, 10), call.ret.value.speaker_accuracy))
        /\ (call.args.results = ScenarioResults
                /\ call.args.query_data = GroundTruthDataset[2])
               => call.ret.value = [type_accuracy |-> One,
                                    keyword_relevance |-> R(6, 10),
                                    speaker_accuracy |-> One,
                                    overall_relevance |-> R(8, 10)]

\* C14's case: the ten results were scored against the action-items QuerySpec
C14_Witness ==
    /\ call.op = "evaluate_relevance"
    /\ Len(call.args.results) = 10
    /\ call.args.query_data = GroundTruthDataset[2]
    /\ call.ret.value.keyword_relevance = R(6, 10)
    /\ call.ret.value.overall_relevance = R(8, 10)

\* C15: overall_quality is 0.4 * confidence + 0.2 * length_score +
\* 0.3 * keyword_coverage + 0.1 * source_utilization, with source_utilization
\* min(sources_used / 3, 1.0): 1.0 from three sources on; the weights sum to
\* 1.0.
C15_OverallQuality ==
    (call.op = "evaluate_generation_quality" /\ ~call.ret.raised) =>
        /\ call.ret.value.confidence = call.args.rag_result.generated_answer.confidence
        /\ call.ret.value.source_utilization =
               IF call.args.rag_result.generated_answer.sources_used >= 3 THEN One
               ELSE R(call.args.rag_result.generated_answer.sources_used, 3)
        /\ call.ret.value.overall_quality =
               RAdd(RAdd(RAdd(RMul(R(4, 10), call.ret.value.confidence),
                              RMul(R(2, 10), call.ret.value.length_score)),
                         RMul(R(3, 10), call.ret.value.keyword_coverage)),
                    RMul(R(1, 10), call.ret.value.source_utilization))
        /\ (/\ call.ret.value.confidence = One
            /\ call.ret.value.length_score = One
            /\ call.ret.value.keyword_coverage = One
            /\ call.ret.value.source_utilization = One)
               => call.ret.value.overall_quality = One

\* C15's case: an answer made from more than three sources was scored, and
\* one with all four components at 1.0
C15_Witness ==
    /\ call.op = "evaluate_generation_quality"
    /\ ~call.ret.raised
    /\ call.args.rag_result.generated_answer.sources_used > 3
    /\ call.ret.value.source_utilization = One
    /\ call.ret.value.keyword_coverage = One
    /\ call.ret.value.length_score = One
    /\ call.ret.value.confidence = One

\* the number of expected keywords the answer holds, letter case ignored
KeywordsCovered(query_data, answer) ==
    Cardinality({k \in 1..Len(query_data.expected_keywords) :
        Contains(Lower(query_data.expected_keywords[k]), Lower(answer))})

\* C16: keyword_coverage is the number of expected keywords found in the
\* answer (letter case ignored) over the number of expected keywords, and 0.0
\* when the QuerySpec declares no keywords.
C16_KeywordCoverage ==
    /\ (call.op = "evaluate_generation_quality"
           /\ "expected_keywords" \notin DOMAIN call.args.query_data) =>
           /\ ~call.ret.raised
           /\ call.ret.value.keyword_coverage = Zero
    /\ (call.op = "evaluate_generation_quality"
           /\ "expected_keywords" \in DOMAIN call.args.query_data
           /\ call.args.query_data.expected_keywords # <<>>) =>
           /\ ~call.ret.raised
           /\ call.ret.value.keyword_coverage =
                  R(KeywordsCovered(call.args.query_data,
                                    call.args.rag_result.generated_answer.answer),
                    Len(call.args.query_data.expected_keywords))

\* C16's case: the answer holds three of the five expected keywords
C16_Witness ==
    /\ call.op = "evaluate_generation_quality"
    /\ "expected_keywords" \in DOMAIN call.args.query_data
    /\ Len(call.args.query_data.expected_keywords) = 5
    /\ call.ret.value.keyword_coverage = R(3, 5)

\* C17: on an empty or a one-element result list evaluate_ranking_quality
\* returns score_monotonicity 1.0 and score_distribution 1.0, whatever the
\* one score is.
C17_ShortListsRankPerfect ==
    /\ (call.op = "evaluate_ranking_quality" /\ Len(call.args.results) < 2) =>
           /\ ~call.ret.raised
           /\ call.ret.value = [score_monotonicity |-> One, score_distribution |-> One]
    /\ \A c \in DOMAIN results_by_category :
           \A n \in 1..Len(results_by_category[c]) :
               results_by_category[c][n].num_retrieved < 2
                   => results_by_category[c][n].ranking =
                          [score_monotonicity |-> One, score_distribution |-> One]

\* C17's case: a list of one result with a positive score was ranked
C17_Witness ==
    /\ call.op = "evaluate_ranking_quality"
    /\ Len(call.args.results) = 1
    /\ RLt(Zero, call.args.results[1].score)
    /\ call.ret.value.score_distribution = One

\* C18: for two or more results score_monotonicity is 1.0 when every adjacent
\* pair has score[i] >= score[i+1] (ties allowed), and 0.0 otherwise.
C18_MonotonicityBinary ==
    /\ (call.op = "evaluate_ranking_quality" /\ Len(call.args.results) >= 2) =>
           /\ ~call.ret.raised
           /\ call.ret.value.score_monotonicity =
                  IF NonIncreasing(call.args.results) THEN One ELSE Zero
    /\ \A n \in 1..Len(all_ranking_scores) : all_ranking_scores[n] \in {Zero, One}

\* C18's case: three results, the first two tied, in non-increasing order
C18_Witness ==
    /\ call.op = "evaluate_ranking_quality"
    /\ Len(call.args.results) = 3
    /\ call.args.results[1].score = call.args.results[2].score
    /\ call.args.results[3].score # call.args.results[2].score
    /\ call.ret.value.score_monotonicity = One

\* min((max score - min score) / max score, 1.0) of a list whose max score is
\* not 0
Spread(results) ==
    RMin(Divide(RSub(MaxOf(Scores(results)), MinOf(Scores(results))),
                MaxOf(Scores(results))).value,
         One)

\* C19: for two or more results score_distribution is
\* min((max - min) / max, 1.0) when the max score is positive and 0.0 when
\* the max score is 0 or negative; the call never divides by zero and the
\* value lies in [0, 1], negative scores included.
C19_ScoreDistribution ==
    (call.op = "evaluate_ranking_quality" /\ Len(call.args.results) >= 2) =>
        /\ ~call.ret.raised
        /\ call.ret.value.score_distribution =
               IF RLt(Zero, MaxOf(Scores(call.args.results)))
               THEN Spread(call.args.results)
               ELSE Zero
        /\ InUnit(call.ret.value.score_distribution)

\* C19's case: two results with different negative scores were ranked
C19_Witness ==
    /\ call.op = "evaluate_ranking_quality"
    /\ Len(call.args.results) = 2
    /\ RLt(MaxOf(Scores(call.args.results)), Zero)
    /\ RLt(MinOf(Scores(call.args.results)), MaxOf(Scores(call.args.results)))
    /\ call.ret.value.score_distribution = Zero

\* C19 as first stated: for two or more results score_distribution is
\* min((max - min) / max, 1.0) unless the max score is 0, where it is 0.0, and
\* it lies in [0, 1].
C19_AsStated ==
    (call.op = "evaluate_ranking_quality" /\ Len(call.args.results) >= 2) =>
        /\ ~call.ret.raised
        /\ call.ret.value.score_distribution =
               IF MaxOf(Scores(call.args.results)) = Zero THEN Zero
               ELSE Spread(call.args.results)
        /\ InUnit(call.ret.value.score_distribution)

\* the grades, worst to best
GradeRank(grade) ==
    CASE grade = "D" -> 0
      [] grade = "C" -> 1
      [] grade = "B" -> 2
      [] grade = "B+" -> 3
      [] grade = "A" -> 4
      [] grade = "A+" -> 5

\* the grade of the score n / d, d > 0, by inclusive lower thresholds
ThresholdGrade(score) ==
    IF 10 * score[1] >= 9 * score[2] THEN "A+"
    ELSE IF 10 * score[1] >= 8 * score[2] THEN "A"
    ELSE IF 10 * score[1] >= 7 * score[2] THEN "B+"
    ELSE IF 10 * score[1] >= 6 * score[2] THEN "B"
    ELSE IF 10 * score[1] >= 5 * score[2] THEN "C"
    ELSE "D"

\* C20: _get_grade gives A+ from 0.9, A from 0.8, B+ from 0.7, B from 0.6,
\* C from 0.5 (each threshold included) and D below; every score gets one of
\* these grades, and a higher score never a worse one.  The report's three
\* grades are the grades of the run's three averages.
C20_GradeThresholds ==
    /\ call.op = "_get_grade" =>
           /\ call.ret \in {"A+", "A", "B+", "B", "C", "D"}
           /\ call.ret = ThresholdGrade(call.args.score)
           /\ \A higher \in GradeScores :
                  RLeq(call.args.score, higher)
                      => GradeRank(get_grade(higher)) >= GradeRank(call.ret)
    /\ pc = "reported" =>
           /\ report.relevance_grade =
                  ThresholdGrade(run_result.value.overall_metrics.average_relevance)
           /\ report.ranking_grade =
                  ThresholdGrade(run_result.value.overall_metrics.average_ranking_quality)
           /\ report.generation_grade =
                  ThresholdGrade(run_result.value.overall_metrics.average_generation_quality)

\* C20's case: a score exactly on the top threshold was graded
C20_Witness ==
    /\ call.op = "_get_grade"
    /\ call.args.score = R(9, 10)
    /\ call.ret = "A+"

RECURSIVE Total(_, _)
\* the number of ScoreRecords in the categories S of by_category
Total(by_category, S) ==
    IF S = {} THEN 0
    ELSE Len(by_category[CHOOSE c \in S : TRUE])
         + Total(by_category, S \ {CHOOSE c \in S : TRUE})

\* the ScoreRecords kept for the query of QuerySpec i, as <<category, position>>
RecordsOf(i) ==
    {cn \in UNION {{<<c, n>> : n \in 1..Len(results_by_category[c])} :
                       c \in DOMAIN results_by_category} :
        results_by_category[cn[1]][cn[2]].query = ground_truth_queries[i].query}

\* QuerySpec i has one ScoreRecord, under its category, and entry i of each
\* detailed array is that record's
RecordedInOrder(i) ==
    /\ Cardinality(RecordsOf(i)) = 1
    /\ \A cn \in RecordsOf(i) :
           /\ cn[1] = ground_truth_queries[i].category
           /\ results_by_category[cn[1]][cn[2]].relevance.overall_relevance
                  = all_relevance_scores[i]
           /\ results_by_category[cn[1]][cn[2]].ranking.score_monotonicity
                  = all_ranking_scores[i]
           /\ results_by_category[cn[1]][cn[2]].generation.overall_quality
                  = all_generation_scores[i]
           /\ results_by_category[cn[1]][cn[2]].retrieval_time = query_times[i]
           /\ results_by_category[cn[1]][cn[2]].generation_time = generation_times[i]

\* C21: the run handles one QuerySpec at a time and in order (retrieval,
\* orchestrator call, scorers, append): while QuerySpec qi is in work exactly
\* the qi - 1 QuerySpecs before it are recorded; after a completed run each
\* QuerySpec has one ScoreRecord under its category, the categories hold
\* total_queries records, and every detailed array has one entry per
\* QuerySpec, in QuerySpec order.
C21_OneRecordPerQueryInOrder ==
    /\ pc \in {"search", "generate", "score"} =>
           /\ qi \in 1..Len(ground_truth_queries)
           /\ Total(results_by_category, DOMAIN results_by_category) = qi - 1
           /\ Len(all_relevance_scores) = qi - 1
           /\ Len(all_ranking_scores) = qi - 1
           /\ Len(all_generation_scores) = qi - 1
           /\ Len(query_times) = IF pc = "score" THEN qi ELSE qi - 1
           /\ Len(generation_times) = Len(query_times)
           /\ \A i \in 1..(qi - 1) : RecordedInOrder(i)
    /\ pc \in {"done", "reported"} =>
           /\ ~run_result.raised
           /\ run_result.value.overall_metrics.total_queries = Len(ground_truth_queries)
           /\ Total(run_result.value.results_by_category,
                    DOMAIN run_result.value.results_by_category)
                  = run_result.value.overall_metrics.total_queries
           /\ run_result.value.results_by_category = results_by_category
           /\ \A k \in DOMAIN run_result.value.detailed_scores :
                  Len(run_result.value.detailed_scores[k]) = Len(ground_truth_queries)
           /\ run_result.value.detailed_scores =
                  [relevance_scores |-> all_relevance_scores,
                   ranking_scores |-> all_ranking_scores,
                   generation_scores |-> all_generation_scores,
                   retrieval_times |-> query_times,
                   generation_times |-> generation_times]
           /\ \A i \in 1..Len(ground_truth_queries) : RecordedInOrder(i)

\* C21's case: a run over MaxQueries QuerySpecs has completed, with
\* retrieval times that differ from query to query
C21_Witness ==
    /\ pc = "done"
    /\ Len(run_result.value.detailed_scores.relevance_scores) = MaxQueries
    /\ Cardinality(DOMAIN run_result.value.results_by_category) = MaxQueries
    /\ query_times[1] # query_times[MaxQueries]

\* C22: after all queries the run's global means are the arithmetic means of
\* the per-query relevance, ranking and generation scores and of the two
\* latencies, and the report gives for each category the mean of its
\* ScoreRecords' relevance, ranking and generation scores and latencies.
C22_MeansGlobalAndPerCategory ==
    pc = "reported" =>
        /\ Ok(run_result.value.overall_metrics.average_relevance)
               = Divide(RSum(all_relevance_scores), Float(Len(all_relevance_scores)))
        /\ Ok(run_result.value.overall_metrics.average_ranking_quality)
               = Divide(RSum(all_ranking_scores), Float(Len(all_ranking_scores)))
        /\ Ok(run_result.value.overall_metrics.average_generation_quality)
               = Divide(RSum(all_generation_scores), Float(Len(all_generation_scores)))
        /\ Ok(run_result.value.overall_metrics.average_retrieval_time)
               = Divide(RSum(query_times), Float(Len(query_times)))
        /\ Ok(run_result.value.overall_metrics.average_generation_time)
               = Divide(RSum(generation_times), Float(Len(generation_times)))
        /\ \A c \in DOMAIN results_by_category :
               /\ c \in DOMAIN report.by_category
               /\ Ok(report.by_category[c].avg_relevance)
                      = Divide(RSum(Column(results_by_category[c], "relevance",
                                           "overall_relevance")),
                               Float(Len(results_by_category[c])))
               /\ Ok(report.by_category[c].avg_generation)
                      = Divide(RSum(Column(results_by_category[c], "generation",
                                           "overall_quality")),
                               Float(Len(results_by_category[c])))
               /\ "avg_ranking" \in DOMAIN report.by_category[c]
               /\ Ok(report.by_category[c].avg_ranking)
                      = Divide(RSum(Column(results_by_category[c], "ranking",
                                           "score_monotonicity")),
                               Float(Len(results_by_category[c])))

\* the ScoreRecord of a query that retrieved nothing
EmptyRecord(r) ==
    /\ r.num_retrieved = 0
    /\ AllZero(r.relevance)
    /\ r.ranking = [score_monotonicity |-> One, score_distribution |-> One]
    /\ r.confidence = Zero
    /\ r.top_score = Zero

\* C23: with an empty store, search returns the empty list without raising
\* and the evaluation run raises for no reason but a failing store; every
\* ScoreRecord has num_retrieved 0, relevance scores 0.0, ranking scores 1.0,
\* confidence 0.0 and top_score 0.0, and the answer scored is the fixed
\* fallback with sources_used 0.
C23_EmptyStoreRun ==
    store = <<>> =>
        /\ (call.op = "search" /\ call.args.store_up) =>
               /\ ~call.ret.raised
               /\ call.ret.value = <<>>
        /\ pc = "score" =>
               /\ retrieval_results = <<>>
               /\ rag_result.generated_answer =
                      [answer |-> NoInfoAnswer, confidence |-> Zero, sources_used |-> 0]
        /\ pc = "raised" => run_result.exc = "StoreError"
        /\ \A c \in DOMAIN results_by_category :
               \A n \in 1..Len(results_by_category[c]) :
                   EmptyRecord(results_by_category[c][n])

\* C23's case: a run over an empty store has completed and returned
C23_Witness ==
    /\ store = <<>>
    /\ pc = "done"
    /\ ~run_result.raised
    /\ Total(results_by_category, DOMAIN results_by_category) = MaxQueries

\* C24: search_and_generate returns the query unchanged, the chunks R that
\* search returns for the caller's arguments, their number, and the answer
\* generate_answer gives for R; it raises only when search raises
\* (generate_answer never does).
C24_PipelineIsComposition ==
    call.op = "search_and_generate" =>
        /\ call.ret.raised =
               search(store, langsmith_client, call.args.query, call.args.limit,
                      call.args.chunk_type, call.args.meeting_id,
                      call.args.store_up).raised
        /\ call.ret.raised =>
               call.ret.exc =
                   search(store, langsmith_client, call.args.query, call.args.limit,
                          call.args.chunk_type, call.args.meeting_id,
                          call.args.store_up).exc
        /\ ~call.ret.raised =>
               /\ DOMAIN call.ret.value = {"query", "generated_answer",
                                           "retrieved_chunks", "total_chunks_found"}
               /\ call.ret.value.query = call.args.query
               /\ call.ret.value.retrieved_chunks =
                      search(store, langsmith_client, call.args.query, call.args.limit,
                             call.args.chunk_type, call.args.meeting_id,
                             call.args.store_up).value
               /\ call.ret.value.total_chunks_found = Len(call.ret.value.retrieved_chunks)
               /\ ~generate_answer(langsmith_client, call.args.query,
                                   call.ret.value.retrieved_chunks,
                                   call.args.response).raised
               /\ call.ret.value.generated_answer =
                      generate_answer(langsmith_client, call.args.query,
                                      call.ret.value.retrieved_chunks,
                                      call.args.response).value

\* C24's case: search_and_generate retrieved more chunks than the answer
\* uses, and the generation call answered
C24_Witness ==
    /\ call.op = "search_and_generate"
    /\ ~call.ret.raised
    /\ call.ret.value.total_chunks_found > TopK
    /\ "retrieval_scores" \in DOMAIN call.ret.value.generated_answer

\* the filter that holds one equality condition for each of the two filters
\* that is given (not None), and no filter when neither is
SuppliedFilter(chunk_type, meeting_id) ==
    CASE chunk_type = None /\ meeting_id = None -> <<>>
      [] chunk_type # None /\ meeting_id = None ->
             <<[must |-> <<[key |-> "type", value |-> chunk_type]>>]>>
      [] chunk_type = None /\ meeting_id # None ->
             <<[must |-> <<[key |-> "meeting_id", value |-> meeting_id]>>]>>
      [] OTHER ->
             <<[must |-> <<[key |-> "type", value |-> chunk_type],
                           [key |-> "meeting_id", value |-> meeting_id]>>]>>

\* every result has the type and the meeting asked for
Filtered(results, chunk_type, meeting_id) ==
    \A n \in 1..Len(results) :
        /\ chunk_type # None => results[n].type = chunk_type
        /\ meeting_id # None => results[n].meeting_id = meeting_id

NoCredential(args) ==
    /\ args.mistral_api_key \in {None, ""}
    /\ args.env_key \in {None, ""}

\* C26: constructing MeetingRAGSystem with no api key, from the argument or
\* the environment, raises at once (and only then); after that nothing more
\* happens on the instance: no retry, no retrieval, no generation, no query of
\* the evaluation run.
C26_NoCredentialFailsFast ==
    [][/\ pc # "config_error"
       /\ pc = "new" =>
              /\ call'.op = "__init__"
              /\ call'.ret.raised = NoCredential(call'.args)
              /\ call'.ret.raised =>
                     /\ call'.ret.exc = "ValueError"
                     /\ pc' = "config_error"
                     /\ qi' = 0
                     /\ run_result' = <<>>
              /\ ~call'.ret.raised => pc' = "idle"]_vars

\* C26's case: the construction was given an empty key and found none in the
\* environment
C26_Witness ==
    /\ pc = "config_error"
    /\ call.op = "__init__"
    /\ call.args.mistral_api_key = ""
    /\ call.args.env_key = None
    /\ call.ret.raised

\* the scorer call a client repeats: the one it holds from before the call in
\* between, or the one it has just made
Held == IF "earlier" \in DOMAIN call THEN call.earlier ELSE call

C28_GenerationTimesOut ==
    (call.op = "blocked" \/ pc = "hung") ~> (call.op # "blocked" /\ pc # "hung")

\* how many times name occurs in the trace calls
RECURSIVE Times(_, _)
Times(name, calls) ==
    IF calls = <<>> THEN 0
    ELSE (IF Head(calls) = name THEN 1 ELSE 0) + Times(name, Tail(calls))

\* C29: within one search_and_generate call the language model is called at
\* most once, also when its call raises; it is called only after the store
\* has been searched and the search has returned; and it is not called when
\* the search returned no results.
C29_GenerationAfterRetrievalOnce ==
    call.op = "search_and_generate" =>
        /\ Times("chat.complete", Trace(call.ret)) <= 1
        /\ Times("client.search", Trace(call.ret)) = 1
        /\ Head(Trace(call.ret)) = "client.search"
        /\ Times("chat.complete", Trace(call.ret)) = 1 <=>
               (~call.ret.raised /\ call.ret.value.retrieved_chunks # <<>>)

\* C29's case: retrieval found results, the language model was called and
\* its call raised
C29_Witness ==
    /\ call.op = "search_and_generate"
    /\ ~call.ret.raised
    /\ call.ret.value.retrieved_chunks # <<>>
    /\ call.args.response.raised
    /\ Trace(call.ret) = <<"client.search", "chat.complete">>

\* min(n, 5)
TopCount(n) == IF n < TopK THEN n ELSE TopK

\* the GeneratedAnswer is well-formed for the chunks it was generated from,
\* where failed says that the language model's call raised
WellFormed(answer, chunks, failed) ==
    /\ answer.sources_used <= Len(chunks)
    /\ "error" \in DOMAIN answer <=> (chunks # <<>> /\ failed)
    /\ "retrieval_scores" \in DOMAIN answer <=> (chunks # <<>> /\ ~failed)
    /\ "retrieval_scores" \in DOMAIN answer =>
           /\ answer.sources_used = TopCount(Len(chunks))
           /\ answer.retrieval_scores # <<>>
           /\ Len(answer.retrieval_scores) = answer.sources_used
           /\ \A n \in 1..TopCount(Len(chunks)) :
                  answer.retrieval_scores[n] = chunks[n].score

\* C30: every GeneratedAnswer generate_answer returns over n results is
\* well-formed: sources_used is at most n; on success sources_used is
\* min(n, 5) and retrieval_scores is the scores of the first min(n, 5) results
\* in rank order, hence non-empty and of length sources_used;
\* retrieval_scores is absent on the empty-results fallback and on generation
\* failure; the error descriptor is present only on generation failure.
C30_GeneratedAnswerWellFormed ==
    /\ call.op = "generate_answer" =>
           /\ ~call.ret.raised
           /\ WellFormed(call.ret.value, call.args.retrieved_chunks,
                         call.args.response.raised)
    /\ (call.op = "search_and_generate" /\ ~call.ret.raised) =>
           WellFormed(call.ret.value.generated_answer, call.ret.value.retrieved_chunks,
                      call.args.response.raised)

\* C30's case: an answer generated from six results, five of them used
C30_Witness ==
    /\ call.op = "generate_answer"
    /\ Len(call.args.retrieved_chunks) = 6
    /\ ~call.args.response.raised
    /\ call.ret.value.sources_used = 5
    /\ Len(call.ret.value.retrieval_scores) = 5
    /\ call.args.retrieved_chunks[6].score # call.args.retrieved_chunks[5].score

====
